---- MODULE Spec2Model ----
(***************************************************************************)
(* Model of src/main.py: the collision simulation (check_collision,        *)
(* calculate_positions, simulate_collisions) and the loader                *)
(* (load_asteroids).                                                       *)
(*                                                                         *)
(* Units.  duration and time_step are given in hundredths (time_step = 5   *)
(* is the Python float 0.05).  A rounded sample time t, as produced by     *)
(* round(t, 1), is held as its number of tenths (t = 12 is 1.2).  A body   *)
(* is written in decimal, lengths (x, y, radius) in tenths and velocities  *)
(* in length units per time unit (x = 3 is the literal 0.3, vx = -1 is     *)
(* -1.0), and held as the binary64 values nearest to those decimals.       *)
(*                                                                         *)
(* Floating point.  Every number of the simulation is a binary64 value,    *)
(* and every operation on it is modelled bit for bit (Float* below) on     *)
(* 53-bit significands held as base-2^15 limbs: the length and the         *)
(* elements of np.arange, round(t, 1) = rint(t * 10) / 10, the positions   *)
(* x + vx * t and the test sqrt(dx**2 + dy**2) < r1 + r2.                  *)
(*                                                                         *)
(* The power.  x ** 2 is pow(x, 2.0) of the C library (through CPython or  *)
(* numpy), which is not correctly rounded: when the square is not          *)
(* representable the library returns one of the two binary64 values around *)
(* it, and which one is the library's choice.  FloatSquare is the set of   *)
(* those values; check_collision takes the library's choice on its two     *)
(* operands as a parameter.  The library is a function: the variable       *)
(* squares keeps what it returned wherever that decided a test, and later  *)
(* tests on the same operand (in magnitude) use the same value.            *)
(***************************************************************************)
EXTENDS Integers, Sequences, FiniteSets, TLC

(***************************************************************************)
(* Natural numbers of arbitrary size: little-endian sequences of limbs.    *)
(***************************************************************************)
Base == 2^15

RECURSIVE BigNorm(_)
BigNorm(a) ==
    IF a = <<>> THEN a
    ELSE IF a[Len(a)] = 0 THEN BigNorm(SubSeq(a, 1, Len(a) - 1)) ELSE a

RECURSIVE BigFromNat(_)
BigFromNat(n) == IF n = 0 THEN <<>> ELSE <<n % Base>> \o BigFromNat(n \div Base)

RECURSIVE BigToNat(_)
BigToNat(a) == IF a = <<>> THEN 0 ELSE Head(a) + Base * BigToNat(Tail(a))

\* a * k + c, for 0 <= k < Base
RECURSIVE BigMulSmall(_, _, _)
BigMulSmall(a, k, c) ==
    IF a = <<>> THEN BigFromNat(c)
    ELSE LET v == Head(a) * k + c
         IN  <<v % Base>> \o BigMulSmall(Tail(a), k, v \div Base)

\* quotient and remainder of a by k, for 0 < k <= Base
RECURSIVE BigDivSmall(_, _)
BigDivSmall(a, k) ==
    IF a = <<>> THEN [q |-> <<>>, r |-> 0]
    ELSE LET hi == BigDivSmall(Tail(a), k)
             v  == hi.r * Base + Head(a)
         IN  [q |-> <<v \div k>> \o hi.q, r |-> v % k]

RECURSIVE BigAdd(_, _, _)
BigAdd(a, b, c) ==
    IF a = <<>> /\ b = <<>> THEN BigFromNat(c)
    ELSE LET x == IF a = <<>> THEN 0 ELSE Head(a)
             y == IF b = <<>> THEN 0 ELSE Head(b)
             v == x + y + c
         IN  <<v % Base>> \o BigAdd(IF a = <<>> THEN a ELSE Tail(a),
                                    IF b = <<>> THEN b ELSE Tail(b),
                                    v \div Base)

\* a - b - c for a >= b + c, limb by limb with borrow c
RECURSIVE BigSubRaw(_, _, _)
BigSubRaw(a, b, c) ==
    IF a = <<>> THEN <<>>
    ELSE LET y == IF b = <<>> THEN 0 ELSE Head(b)
             v == Head(a) - y - c
         IN  <<IF v < 0 THEN v + Base ELSE v>>
             \o BigSubRaw(Tail(a), IF b = <<>> THEN b ELSE Tail(b),
                          IF v < 0 THEN 1 ELSE 0)

BigSub(a, b) == BigNorm(BigSubRaw(a, b, 0))

\* a < b, for normalised a and b
RECURSIVE BigLess(_, _)
BigLess(a, b) ==
    IF Len(a) # Len(b) THEN Len(a) < Len(b)
    ELSE IF a = <<>> THEN FALSE
    ELSE IF a[Len(a)] # b[Len(b)] THEN a[Len(a)] < b[Len(b)]
    ELSE BigLess(SubSeq(a, 1, Len(a) - 1), SubSeq(b, 1, Len(b) - 1))

RECURSIVE NatBitLen(_)
NatBitLen(n) == IF n = 0 THEN 0 ELSE 1 + NatBitLen(n \div 2)

\* number of significant bits of a normalised a
BigBitLen(a) == IF a = <<>> THEN 0 ELSE 15 * (Len(a) - 1) + NatBitLen(a[Len(a)])

BigOdd(a) == a # <<>> /\ Head(a) % 2 = 1

\* a * 2^n: whole limbs first, the remaining bits by a multiplication
RECURSIVE BigShiftLeft(_, _)
BigShiftLeft(a, n) ==
    IF n >= 15
    THEN LET s == BigShiftLeft(a, n - 15)
         IN  IF s = <<>> THEN s ELSE <<0>> \o s
    ELSE IF n = 0 THEN BigNorm(a)
    ELSE BigNorm(BigMulSmall(a, 2^n, 0))

\* the largest q <= hi with b * q <= r
RECURSIVE QuotDown(_, _, _)
QuotDown(r, b, hi) ==
    IF BigLess(r, BigNorm(BigMulSmall(b, hi, 0))) THEN QuotDown(r, b, hi - 1) ELSE hi

\* the quotient digit of r by b, for r < b * Base and the top limb of b at
\* least Base / 2: the estimate from the leading limbs is at most 2 too large
QuotDigit(r, b) ==
    LET n   == Len(b)
        top == IF Len(r) > n THEN r[n + 1] * Base + r[n]
               ELSE IF Len(r) = n THEN r[n] ELSE 0
        est == top \div b[n]
    IN  QuotDown(r, b, IF est > Base - 1 THEN Base - 1 ELSE est)

\* long division over the limbs of a from the most significant one, for b
\* with a top limb of at least Base / 2
RECURSIVE BigDivModNorm(_, _)
BigDivModNorm(a, b) ==
    IF a = <<>> THEN [q |-> <<>>, r |-> <<>>]
    ELSE LET hi == BigDivModNorm(Tail(a), b)
             r2 == BigNorm(<<Head(a)>> \o hi.r)
             qd == QuotDigit(r2, b)
         IN  [q |-> <<qd>> \o hi.q,
              r |-> BigSub(r2, BigNorm(BigMulSmall(b, qd, 0)))]

\* quotient and remainder of a by b (b > 0, normalised): both are scaled so
\* that the top limb of the divisor is at least Base / 2
BigDivMod(a, b) ==
    LET sh == 15 - NatBitLen(b[Len(b)])
        d  == BigDivModNorm(BigShiftLeft(a, sh), BigShiftLeft(b, sh))
    IN  [q |-> d.q, r |-> BigNorm(BigDivSmall(d.r, 2^sh).q)]

\* n shifted right by sh >= 1 bits: the quotient, the last bit shifted out
\* (guard) and whether any bit below it was set (sticky)
RECURSIVE BigShiftRight(_, _, _)
BigShiftRight(n, sh, sticky) ==
    IF sh > 15
    THEN LET d == BigDivSmall(n, Base)
         IN  BigShiftRight(BigNorm(d.q), sh - 15, sticky \/ d.r # 0)
    ELSE LET d    == BigDivSmall(n, 2^sh)
             half == 2^(sh - 1)
         IN  [q |-> BigNorm(d.q), guard |-> d.r >= half,
              sticky |-> sticky \/ d.r % half # 0]

\* a * b
RECURSIVE BigMul(_, _)
BigMul(a, b) ==
    IF b = <<>> THEN <<>>
    ELSE BigAdd(BigMulSmall(a, Head(b), 0), <<0>> \o BigMul(a, Tail(b)), 0)

\* the largest r in lo .. hi with r * r <= v
RECURSIVE NatIsqrt(_, _, _)
NatIsqrt(v, lo, hi) ==
    IF lo = hi THEN lo
    ELSE LET mid == (lo + hi + 1) \div 2
         IN  IF mid * mid > v THEN NatIsqrt(v, lo, mid - 1) ELSE NatIsqrt(v, mid, hi)

\* the largest d <= hi with (s2 * Base + d) * d <= r
RECURSIVE RootDown(_, _, _)
RootDown(r, s2, hi) ==
    IF BigLess(r, BigNorm(BigMulSmall(<<hi>> \o s2, hi, 0)))
    THEN RootDown(r, s2, hi - 1)
    ELSE hi

\* root and remainder of n, an even number of limbs whose leading pair is at
\* least Base^2 / 4: the schoolbook method, one limb of the root for every
\* pair of limbs of n.  The limb is estimated from the leading limbs of the
\* remainder and of twice the root, which never gives too little
RECURSIVE BigSqrtRem(_)
BigSqrtRem(n) ==
    IF Len(n) = 2
    THEN LET v == n[2] * Base + n[1]
             s == NatIsqrt(v, 0, Base - 1)
         IN  [s |-> <<s>>, r |-> BigFromNat(v - s * s)]
    ELSE LET hi  == BigSqrtRem(SubSeq(n, 3, Len(n)))
             L   == Len(hi.s)
             rem == BigNorm(<<n[1], n[2]>> \o hi.r)
             s2  == BigMulSmall(hi.s, 2, 0)
             top == (IF Len(rem) > L + 2 THEN rem[L + 3] * Base * Base ELSE 0)
                    + (IF Len(rem) > L + 1 THEN rem[L + 2] * Base ELSE 0)
                    + (IF Len(rem) > L THEN rem[L + 1] ELSE 0)
             est == top \div (2 * hi.s[L])
             d   == RootDown(rem, s2, IF est > Base - 1 THEN Base - 1 ELSE est)
         IN  [s |-> <<d>> \o hi.s,
              r |-> BigSub(rem, BigNorm(BigMulSmall(<<d>> \o s2, d, 0)))]

(***************************************************************************)
(* binary64 values: [neg, m, e] stands for (-1)^neg * m * 2^e with m a     *)
(* 53-bit significand; zero is FloatZero.  Rounding is to nearest, ties to *)
(* even (the IEEE default, which CPython and numpy use).                   *)
(***************************************************************************)
FloatZero == [neg |-> FALSE, m |-> <<>>, e |-> 0]

\* n shifted right by sh >= 1 bits and rounded to nearest, ties to even;
\* sticky says that the exact value lies strictly above n
BigShiftRightRound(n, sh, sticky) ==
    LET s == BigShiftRight(n, sh, sticky)
    IN  IF s.guard /\ (s.sticky \/ BigOdd(s.q))
        THEN BigNorm(BigAdd(s.q, <<1>>, 0)) ELSE s.q

\* significand and exponent of the binary64 nearest to n * 2^e (n > 0; plus
\* a little if sticky)
FloatRound(n, e, sticky) ==
    LET len == BigBitLen(n)
    IN  IF len <= 53
        THEN [m |-> BigShiftLeft(n, 53 - len), e |-> e - (53 - len)]
        ELSE LET r == BigShiftRightRound(n, len - 53, sticky)
             IN  IF BigBitLen(r) = 54
                 THEN [m |-> BigNorm(BigDivSmall(r, 2).q), e |-> e + (len - 53) + 1]
                 ELSE [m |-> r, e |-> e + (len - 53)]

\* the binary64 nearest to (-1)^neg * n * 2^e
FloatMake(neg, n, e, sticky) ==
    IF n = <<>> THEN FloatZero
    ELSE LET r == FloatRound(n, e, sticky)
         IN  [neg |-> neg, m |-> r.m, e |-> r.e]

\* the float written as the decimal p/q (0 < q <= Base)
FloatFromRat(p, q) ==
    LET d == BigDivSmall(BigShiftLeft(BigFromNat(IF p < 0 THEN 0 - p ELSE p), 70), q)
    IN  FloatMake(p < 0, BigNorm(d.q), 0 - 70, d.r # 0)

FloatNeg(a) == IF a.m = <<>> THEN a ELSE [a EXCEPT !.neg = ~@]

\* a + b
FloatAdd(a, b) ==
    IF a.m = <<>> THEN b
    ELSE IF b.m = <<>> THEN a
    ELSE LET e  == IF a.e < b.e THEN a.e ELSE b.e
             am == BigShiftLeft(a.m, a.e - e)
             bm == BigShiftLeft(b.m, b.e - e)
         IN  IF a.neg = b.neg
             THEN FloatMake(a.neg, BigNorm(BigAdd(am, bm, 0)), e, FALSE)
             ELSE IF BigLess(am, bm)
             THEN FloatMake(b.neg, BigSub(bm, am), e, FALSE)
             ELSE FloatMake(a.neg, BigSub(am, bm), e, FALSE)

\* a - b
FloatSub(a, b) == FloatAdd(a, FloatNeg(b))

\* a * b
FloatMul(a, b) ==
    IF a.m = <<>> \/ b.m = <<>> THEN FloatZero
    ELSE FloatMake(a.neg # b.neg, BigNorm(BigMul(a.m, b.m)), a.e + b.e, FALSE)

\* a * k for a natural number 0 <= k < Base
FloatMulNat(a, k) == FloatMake(a.neg, BigNorm(BigMulSmall(a.m, k, 0)), a.e, FALSE)

\* a / b, for a >= 0 and b > 0
FloatDiv(a, b) ==
    LET d == BigDivMod(BigShiftLeft(a.m, 55), b.m)
    IN  FloatMake(FALSE, BigNorm(d.q), a.e - b.e - 55, d.r # <<>>)

\* math.sqrt(a), for a >= 0: the root of the 53-bit significand brought to
\* 119 or 120 bits over an even exponent, rounded with its remainder
FloatSqrt(a) ==
    IF a.m = <<>> THEN FloatZero
    ELSE LET k == IF (a.e - 67) % 2 = 0 THEN 67 ELSE 66
             r == BigSqrtRem(BigShiftLeft(a.m, k))
         IN  FloatMake(FALSE, r.s, (a.e - k) \div 2, r.r # <<>>)

\* |a| < |b|
FloatMagLess(a, b) ==
    IF b.m = <<>> THEN FALSE
    ELSE IF a.m = <<>> THEN TRUE
    ELSE IF a.e # b.e THEN a.e < b.e
    ELSE BigLess(a.m, b.m)

\* a < b
FloatLess(a, b) ==
    IF a.neg # b.neg THEN a.neg
    ELSE IF a.neg THEN FloatMagLess(b, a)
    ELSE FloatMagLess(a, b)

\* math.ceil(a) as an integer, for a >= 0
FloatCeil(a) ==
    IF a.e >= 0 THEN BigToNat(BigShiftLeft(a.m, a.e))
    ELSE LET s == BigShiftRight(a.m, 0 - a.e, FALSE)
         IN  BigToNat(s.q) + (IF s.guard \/ s.sticky THEN 1 ELSE 0)

\* rint(a) as an integer, for a >= 0: nearest, ties to even
FloatRint(a) ==
    IF a.e >= 0 THEN BigToNat(BigShiftLeft(a.m, a.e))
    ELSE BigToNat(BigShiftRightRound(a.m, 0 - a.e, FALSE))

(***************************************************************************)
(* Inputs of the simulation.                                               *)
(***************************************************************************)
MaxId == 3

Ids == 1 .. MaxId

\* bodies [x, y, radius, vx, vy] as written in decimal: at rest at the
\* origin; approaching along x and passing through; a smaller one moving
\* down along y, which the second grazes: in decimal they touch at t = 0.2
\* and at t = 0.5 (distance 1.5 from 1.2 and 0.9) and overlap in between
BodyKinds ==
    { [x |-> 0,  y |-> 0,  radius |-> 10, vx |-> 0,  vy |-> 0],
      [x |-> 50, y |-> 0,  radius |-> 10, vx |-> -1, vy |-> 0],
      [x |-> 36, y |-> -7, radius |-> 5,  vx |-> 0,  vy |-> -1] }

\* <<duration, time_step>> in hundredths; 10 is the time_step main() passes
TimeInputs ==
    { <<1000, 100>>, <<100, 30>>, <<20, 10>>, <<30, 5>>, <<50, 25>> }

VARIABLES
    pc,                 \* position in simulate_collisions / load_asteroids
    asteroids_by_id,    \* the body mapping passed to simulate_collisions (floats)
    duration,           \* hundredths
    time_step,          \* hundredths
    asteroid_ids,       \* sorted(asteroids_by_id.keys())
    arange_len,         \* len(np.arange(0, duration + time_step, time_step))
    ti,                 \* index of the current element of the arange
    t,                  \* round(t, 1), in tenths
    current_positions,  \* calculate_positions(asteroids_by_id, t)
    i, j, id1,          \* the two loop indices (1-based) and the outer loop variable
    collisions_list,    \* the log, entries <<t, id1, id2>>
    loaded,             \* history: the mapping as it was passed in
    written,            \* history: the same mapping as written in decimal
    sampled,            \* history: the values t has taken, in order
    squares,            \* the library's pow(., 2.0): operand |-> value, on the
                        \* operands where its choice has decided a test
    file,               \* load_asteroids: the lines of the file, each a sequence
                        \* of whitespace-separated tokens, each a sequence of characters
    pos,                \* index of the next line the file object yields
    parts,              \* the split first line
    has_header,
    has_ids,
    asteroid_id,        \* the next auto-generated ID
    asteroids,          \* the list of bodies built so far
    result              \* the returned mapping (asteroids_by_id of the loader)

simVars == <<asteroids_by_id, duration, time_step, asteroid_ids, arange_len, ti,
             t, current_positions, i, j, id1, collisions_list, loaded, written,
             sampled, squares>>

loadVars == <<file, pos, parts, has_header, has_ids, asteroid_id, asteroids, result>>

vars == <<pc, simVars, loadVars>>

(***************************************************************************)
(* check_collision, calculate_positions and the pieces of                  *)
(* simulate_collisions.                                                    *)
(***************************************************************************)
\* the float of a length or a time given in tenths, and the record of floats
\* of a body written in decimal
FloatOfTenths(n) == FloatFromRat(n, 10)

FloatBody(b) ==
    [x      |-> FloatOfTenths(b.x),
     y      |-> FloatOfTenths(b.y),
     radius |-> FloatOfTenths(b.radius),
     vx     |-> FloatFromRat(b.vx, 1),
     vy     |-> FloatFromRat(b.vy, 1)]

FloatAbs(a) == [a EXCEPT !.neg = FALSE]

\* the values a ** 2 can take: the square itself when it is a binary64
\* value, else the binary64 values next below and next above it
FloatSquare(a) ==
    IF a.m = <<>> THEN {FloatZero}
    ELSE LET n  == BigNorm(BigMul(a.m, a.m))
             sh == BigBitLen(n) - 53
             s  == BigShiftRight(n, sh, FALSE)
             lo == FloatMake(FALSE, s.q, 2 * a.e + sh, FALSE)
             hi == FloatMake(FALSE, BigNorm(BigAdd(s.q, <<1>>, 0)), 2 * a.e + sh, FALSE)
         IN  IF s.guard \/ s.sticky THEN {lo, hi} ELSE {lo}

\* the two operands of ** 2 at line 78, in magnitude
Operands(a1, a2) ==
    <<FloatAbs(FloatSub(a1.x, a2.x)), FloatAbs(FloatSub(a1.y, a2.y))>>

\* what the library can return for o ** 2, given what it has returned
\* before (lib)
SquaresOf(lib, o) == IF o \in DOMAIN lib THEN {lib[o]} ELSE FloatSquare(o)

\* what the library can return on the two operands ops: the functions
\* operand |-> value (one value where the two operands are the same)
Pows(lib, ops) ==
    {(ops[1] :> v) @@ (ops[2] :> w) :
        v \in SquaresOf(lib, ops[1]), w \in SquaresOf(lib, ops[2])}

\* line 78: math.sqrt((a1['x'] - a2['x'])**2 + (a1['y'] - a2['y'])**2), with
\* pw the library's ** 2 on the two operands
dist(pw, a1, a2) ==
    FloatSqrt(FloatAdd(pw[FloatAbs(FloatSub(a1.x, a2.x))],
                       pw[FloatAbs(FloatSub(a1.y, a2.y))]))

\* variant: touching bodies count as colliding (<= for <)
check_collision_nonstrict(pw, a1, a2) ==
    ~FloatLess(FloatAdd(a1.radius, a2.radius), dist(pw, a1, a2))

\* line 79: dist < (a1['radius'] + a2['radius'])
check_collision(pw, a1, a2) ==
    FloatLess(dist(pw, a1, a2), FloatAdd(a1.radius, a2.radius))

\* what line 79 can return with the squares the library can give on the two
\* operands: every choice of the library with the answer it leads to
Outcomes(lib, a1, a2) ==
    {<<pw, check_collision(pw, a1, a2)>> : pw \in Pows(lib, Operands(a1, a2))}

\* variant: no copy, the stored record itself is moved
calculate_positions_inplace(abi, tt) ==
    LET moved == [id \in DOMAIN abi |->
                    [abi[id] EXCEPT !.x = FloatAdd(@, FloatMul(abi[id].vx, tt)),
                                    !.y = FloatAdd(@, FloatMul(abi[id].vy, tt))]]
    IN  [store |-> moved, current |-> moved]

\* variant: the two velocity components exchanged
calculate_positions_swapped(abi, tt) ==
    [ store   |-> abi,
      current |-> [id \in DOMAIN abi |->
                     [abi[id] EXCEPT !.x = FloatAdd(@, FloatMul(abi[id].vy, tt)),
                                     !.y = FloatAdd(@, FloatMul(abi[id].vx, tt))]] ]

\* current = asteroid.copy() with x + vx * t and y + vy * t for x and y (tt
\* is the float t); the copy leaves the stored record as it was, so the
\* mapping comes back unchanged ("store")
calculate_positions(abi, tt) ==
    [ store   |-> abi,
      current |-> [id \in DOMAIN abi |->
                     [abi[id] EXCEPT !.x = FloatAdd(@, FloatMul(abi[id].vx, tt)),
                                     !.y = FloatAdd(@, FloatMul(abi[id].vy, tt))]] ]

\* variant: the keys in descending order
RECURSIVE SortedDescending(_)
SortedDescending(S) ==
    IF S = {} THEN <<>>
    ELSE LET m == CHOOSE x \in S : \A y \in S : x >= y
         IN  <<m>> \o SortedDescending(S \ {m})

\* sorted(keys)
RECURSIVE Sorted(_)
Sorted(S) ==
    IF S = {} THEN <<>>
    ELSE LET m == CHOOSE x \in S : \A y \in S : x <= y
         IN  <<m>> \o Sorted(S \ {m})

\* the Python float of a value given in hundredths
FloatOfHundredths(h) == FloatFromRat(h, 100)

\* len(np.arange(0, duration + time_step, time_step)):
\* ceil((stop - start) / step) in binary64
ArangeLen(d, s) ==
    FloatCeil(FloatDiv(FloatAdd(FloatOfHundredths(d), FloatOfHundredths(s)),
                       FloatOfHundredths(s)))

\* element k of the arange: start + k * delta with start = 0, delta = step
ArangeAt(s, k) == FloatMulNat(FloatOfHundredths(s), k)

\* round(t, 1) on a numpy float: rint(t * 10) / 10.  RoundOneDecimal is the
\* integer n = rint(t * 10); the float n / 10 is FloatOfTenths(n)
RoundDigits == 1

RoundOneDecimal(f) == FloatRint(FloatMulNat(f, 10^RoundDigits))

(***************************************************************************)
(* simulate_collisions                                                     *)
(***************************************************************************)
Init ==
    /\ pc = "start"
    /\ \E di \in TimeInputs : duration = di[1] /\ time_step = di[2]
    /\ \E keys \in SUBSET Ids : written \in [keys -> BodyKinds]
    /\ asteroids_by_id = [id \in DOMAIN written |-> FloatBody(written[id])]
    /\ loaded = asteroids_by_id
    /\ asteroid_ids = <<>>
    /\ arange_len = 0
    /\ ti = 0
    /\ t = 0
    /\ current_positions = <<>>
    /\ i = 0 /\ j = 0 /\ id1 = 0
    /\ collisions_list = <<>>
    /\ sampled = <<>>
    /\ squares = <<>>
    /\ file = <<>> /\ pos = 0 /\ parts = <<>>
    /\ has_header = FALSE /\ has_ids = FALSE
    /\ asteroid_id = 0 /\ asteroids = <<>> /\ result = <<>>

\* lines 96-100: the empty log, the sorted keys, the arange
Begin ==
    /\ pc = "start"
    /\ collisions_list' = <<>>
    /\ asteroid_ids' = Sorted(DOMAIN asteroids_by_id)
    /\ arange_len' = ArangeLen(duration, time_step)
    /\ ti' = 0
    /\ pc' = "for_t"
    /\ UNCHANGED <<asteroids_by_id, duration, time_step, t, current_positions,
                   i, j, id1, loaded, written, sampled, squares, loadVars>>

\* lines 100-108: the next element of the arange, rounded; the positions at
\* that time; entry into the pair loops (with fewer than two bodies the
\* inner loop has no iteration and the sample is over)
NextSample ==
    /\ pc = "for_t"
    /\ ti < arange_len
    /\ LET tt == RoundOneDecimal(ArangeAt(time_step, ti))
           cp == calculate_positions(asteroids_by_id, FloatOfTenths(tt))
           n  == Len(asteroid_ids)
       IN  /\ t' = tt
           /\ sampled' = Append(sampled, tt)
           /\ asteroids_by_id' = cp.store
           /\ current_positions' = cp.current
           /\ IF n >= 2
              THEN /\ i' = 1 /\ j' = 2 /\ id1' = asteroid_ids[1]
                   /\ pc' = "pair" /\ ti' = ti
              ELSE /\ i' = (IF n = 1 THEN 1 ELSE i) /\ j' = j
                   /\ id1' = (IF n = 1 THEN asteroid_ids[1] ELSE id1)
                   /\ pc' = "for_t" /\ ti' = ti + 1
    /\ UNCHANGED <<duration, time_step, asteroid_ids, arange_len,
                   collisions_list, loaded, written, squares, loadVars>>

\* variant: the inner loop of the next outer iteration starts at the outer
\* index itself (asteroid_ids[i:] for asteroid_ids[i+1:])
CheckPairFromSelf ==
    /\ pc = "pair"
    /\ LET n    == Len(asteroid_ids)
           id2  == asteroid_ids[j]
           swap == id1 > id2
           lo   == IF swap THEN id2 ELSE id1
           hi   == IF swap THEN id1 ELSE id2
           a1   == current_positions[lo]
           a2   == current_positions[hi]
       IN  /\ \E outs \in {Outcomes(squares, a1, a2)} :
                 IF Cardinality({o[2] : o \in outs}) = 1
                 THEN /\ collisions_list' =
                            (IF \E o \in outs : o[2]
                             THEN Append(collisions_list, <<t, lo, hi>>)
                             ELSE collisions_list)
                      /\ squares' = squares
                 ELSE \E o \in outs :
                         /\ collisions_list' =
                               (IF o[2]
                                THEN Append(collisions_list, <<t, lo, hi>>)
                                ELSE collisions_list)
                         /\ squares' = o[1] @@ squares
           /\ IF j < n
              THEN /\ j' = j + 1 /\ i' = i /\ id1' = lo
                   /\ pc' = "pair" /\ ti' = ti
              ELSE IF i + 1 <= n
              THEN /\ i' = i + 1 /\ j' = i + 1 /\ id1' = asteroid_ids[i + 1]
                   /\ pc' = "pair" /\ ti' = ti
              ELSE /\ i' = n /\ j' = n /\ id1' = asteroid_ids[n]
                   /\ pc' = "for_t" /\ ti' = ti + 1
    /\ UNCHANGED <<asteroids_by_id, duration, time_step, asteroid_ids,
                   arange_len, t, current_positions, loaded, written, sampled,
                   loadVars>>

\* lines 108-119: one iteration of the inner loop, then the step to the next
\* pair.  id1 is the outer loop's variable: a swap at line 114 would stay
\* in it for the rest of the inner loop.  The test is made with one of the
\* values the library can return for the two squares; where the values it
\* can return do not all give the same answer, the ones it returned are kept.
CheckPair ==
    /\ pc = "pair"
    /\ LET n    == Len(asteroid_ids)
           id2  == asteroid_ids[j]
           swap == id1 > id2
           lo   == IF swap THEN id2 ELSE id1
           hi   == IF swap THEN id1 ELSE id2
           a1   == current_positions[lo]
           a2   == current_positions[hi]
       IN  /\ \E outs \in {Outcomes(squares, a1, a2)} :
                 IF Cardinality({o[2] : o \in outs}) = 1
                 THEN /\ collisions_list' =
                            (IF \E o \in outs : o[2]
                             THEN Append(collisions_list, <<t, lo, hi>>)
                             ELSE collisions_list)
                      /\ squares' = squares
                 ELSE \E o \in outs :
                         /\ collisions_list' =
                               (IF o[2]
                                THEN Append(collisions_list, <<t, lo, hi>>)
                                ELSE collisions_list)
                         /\ squares' = o[1] @@ squares
           /\ IF j < n
              THEN /\ j' = j + 1 /\ i' = i /\ id1' = lo
                   /\ pc' = "pair" /\ ti' = ti
              ELSE IF i + 1 < n
              THEN /\ i' = i + 1 /\ j' = i + 2 /\ id1' = asteroid_ids[i + 1]
                   /\ pc' = "pair" /\ ti' = ti
              ELSE /\ i' = n /\ j' = n /\ id1' = asteroid_ids[n]
                   /\ pc' = "for_t" /\ ti' = ti + 1
    /\ UNCHANGED <<asteroids_by_id, duration, time_step, asteroid_ids,
                   arange_len, t, current_positions, loaded, written, sampled,
                   loadVars>>

\* line 121
Return ==
    /\ pc = "for_t"
    /\ ti >= arange_len
    /\ pc' = "done"
    /\ UNCHANGED <<simVars, loadVars>>

Next == Begin \/ NextSample \/ CheckPair \/ Return

Spec == Init /\ [][Next]_vars

(***************************************************************************)
(* load_asteroids.  A token is a sequence of one-character strings; the    *)
(* characters in use are the digits, ".", "-" and lower-case letters other *)
(* than those of "e", "inf", "nan".  Parsed numbers are held in tenths     *)
(* (tokens carry at most one digit after the point).                       *)
(***************************************************************************)
MaxLines == 3

Digits == <<"0", "1", "2", "3", "4", "5", "6", "7", "8", "9">>

\* the lines a file is made of
LineKinds ==
    { << <<"x">>, <<"y">>, <<"r">>, <<"v", "x">>, <<"v", "y">> >>,          \* header
      << >>,                                                              \* blank
      << <<"1">>, <<"2">>, <<"3">>, <<"4">> >>,                            \* four columns
      << <<"0">>, <<"0">>, <<"1">>, <<"0">>, <<"0">> >>,
      << <<"-", "1">>, <<"2", ".", "5">>, <<"1">>, <<"0">>, <<"3">> >>,
      << <<"7">>, <<"0">>, <<"0">>, <<"1">>, <<"0">>, <<"0">> >>,          \* ID first
      << <<"2", ".", "5">>, <<"0">>, <<"0">>, <<"1">>, <<"0">>, <<"4">> >>,
      << <<"0">>, <<"0">>, <<"x">>, <<"0">>, <<"0">> >>,                   \* a word in a row
      << <<"0">>, <<"0">>, <<"1">>, <<"1", "-", "2">>, <<"0">> >> }        \* "1-2"

Files == UNION {[1 .. n -> LineKinds] : n \in 0 .. MaxLines}

\* str.isdigit(): non-empty and digits only
IsDigit(s) == Len(s) > 0 /\ \A k \in DOMAIN s : \E d \in DOMAIN Digits : s[k] = Digits[d]

\* s.replace(c, '', 1)
RECURSIVE ReplaceFirst(_, _)
ReplaceFirst(s, c) ==
    IF s = <<>> THEN s
    ELSE IF Head(s) = c THEN Tail(s)
    ELSE <<Head(s)>> \o ReplaceFirst(Tail(s), c)

\* line 22: part.replace('.', '', 1).replace('-', '', 1).isdigit()
LooksNumeric(part) == IsDigit(ReplaceFirst(ReplaceFirst(part, "."), "-"))

Unsigned(s) == IF s # <<>> /\ Head(s) = "-" THEN Tail(s) ELSE s

\* float(s) does not raise: an optional sign, then digits with at most one point
FloatOK(s) == IsDigit(ReplaceFirst(Unsigned(s), "."))

\* int(s) does not raise: an optional sign, then digits
IntOK(s) == IsDigit(Unsigned(s))

DigitValue(c) == (CHOOSE d \in DOMAIN Digits : Digits[d] = c) - 1

RECURSIVE DigitsValue(_)
DigitsValue(s) ==
    IF s = <<>> THEN 0 ELSE 10 * DigitsValue(SubSeq(s, 1, Len(s) - 1)) + DigitValue(s[Len(s)])

\* float(s), in tenths
FloatValue(s) ==
    LET u    == Unsigned(s)
        dot  == IF \E k \in DOMAIN u : u[k] = "."
                THEN CHOOSE k \in DOMAIN u : u[k] = "." ELSE Len(u) + 1
        whole == SubSeq(u, 1, dot - 1)
        frac  == SubSeq(u, dot + 1, Len(u))
        mag   == 10 * DigitsValue(whole) + (IF frac = <<>> THEN 0 ELSE DigitValue(frac[1]))
    IN  IF u # s THEN 0 - mag ELSE mag

\* int(s)
IntValue(s) == IF Unsigned(s) # s THEN 0 - DigitsValue(Unsigned(s)) ELSE DigitsValue(s)

MinColumns == 5

IdColumns == 6

FirstAutoId == 1

\* lines 32 and 39
HasIds(cols) == Len(cols) >= IdColumns /\ IsDigit(cols[1])

\* lines 50-57 and 60-67: the five fields from column c on
BodyFrom(id, cols, c) ==
    [id |-> id, x |-> FloatValue(cols[c]), y |-> FloatValue(cols[c + 1]),
     radius |-> FloatValue(cols[c + 2]),
     vx |-> FloatValue(cols[c + 3]), vy |-> FloatValue(cols[c + 4])]

\* line 73: {a['id']: a for a in asteroids}; a later body replaces an
\* earlier one with the same ID
DictById(list) ==
    [k \in {list[p].id : p \in DOMAIN list} |->
        list[CHOOSE p \in DOMAIN list :
                /\ list[p].id = k
                /\ \A q \in DOMAIN list : list[q].id = k => q <= p]]

InitLoad ==
    /\ pc = "open"
    /\ file \in Files
    /\ pos = 1
    /\ parts = <<>>
    /\ has_header = FALSE /\ has_ids = FALSE
    /\ asteroid_id = 0 /\ asteroids = <<>> /\ result = <<>>
    /\ asteroids_by_id = <<>> /\ loaded = <<>> /\ written = <<>>
    /\ squares = <<>>
    /\ duration = 0 /\ time_step = 0
    /\ asteroid_ids = <<>> /\ arange_len = 0 /\ ti = 0 /\ t = 0
    /\ current_positions = <<>>
    /\ i = 0 /\ j = 0 /\ id1 = 0
    /\ collisions_list = <<>> /\ sampled = <<>>

\* lines 12-26: read and split the first line ('' at end of file); a part
\* that does not look numeric makes it a header; otherwise rewind
DetectHeader ==
    /\ pc = "open"
    /\ LET first == IF Len(file) >= 1 THEN file[1] ELSE <<>>
           hdr   == \E k \in DOMAIN first : ~LooksNumeric(first[k])
       IN  /\ parts' = first
           /\ has_header' = hdr
           /\ pos' = (IF hdr THEN 2 ELSE 1)
    /\ asteroids' = <<>>
    /\ pc' = "detect_ids"
    /\ UNCHANGED <<file, has_ids, asteroid_id, result, simVars>>

\* lines 28-42: after a header, read the next line, decide, rewind and skip
\* the header again; without a header decide on the first line
DetectIds ==
    /\ pc = "detect_ids"
    /\ LET first_data_line ==
              IF has_header
              THEN (IF Len(file) >= 2 THEN file[2] ELSE <<>>)
              ELSE parts
       IN  has_ids' = HasIds(first_data_line)
    /\ pos' = (IF has_header THEN 2 ELSE 1)
    /\ asteroid_id' = FirstAutoId
    /\ pc' = "rows"
    /\ UNCHANGED <<file, parts, has_header, asteroids, result, simVars>>

\* variant: a skipped row uses up an ID
ProcessLineCountingSkipped ==
    /\ pc = "rows"
    /\ pos <= Len(file)
    /\ LET cols == file[pos]
       IN  IF Len(cols) < MinColumns
           THEN /\ pc' = "rows"
                /\ asteroid_id' = asteroid_id + 1
                /\ UNCHANGED asteroids
           ELSE IF has_ids
           THEN IF Len(cols) >= IdColumns /\ IntOK(cols[1])
                   /\ \A c \in 2 .. 6 : FloatOK(cols[c])
                THEN /\ asteroids' = Append(asteroids, BodyFrom(IntValue(cols[1]), cols, 2))
                     /\ pc' = "rows"
                     /\ UNCHANGED asteroid_id
                ELSE /\ pc' = "raised"
                     /\ UNCHANGED <<asteroids, asteroid_id>>
           ELSE IF \A c \in 1 .. 5 : FloatOK(cols[c])
                THEN /\ asteroids' = Append(asteroids, BodyFrom(asteroid_id, cols, 1))
                     /\ asteroid_id' = asteroid_id + 1
                     /\ pc' = "rows"
                ELSE /\ pc' = "raised"
                     /\ UNCHANGED <<asteroids, asteroid_id>>
    /\ pos' = pos + 1
    /\ parts' = file[pos]
    /\ UNCHANGED <<file, has_header, has_ids, result, simVars>>

\* lines 43-70: one line of the file.  A row of fewer than five columns is
\* skipped; int() and float() raise ValueError on a field they cannot read
\* and parts[5] raises IndexError on a five-column row when IDs are expected.
ProcessLine ==
    /\ pc = "rows"
    /\ pos <= Len(file)
    /\ LET cols == file[pos]
       IN  IF Len(cols) < MinColumns
           THEN /\ pc' = "rows"
                /\ UNCHANGED <<asteroids, asteroid_id>>
           ELSE IF has_ids
           THEN IF Len(cols) >= IdColumns /\ IntOK(cols[1])
                   /\ \A c \in 2 .. 6 : FloatOK(cols[c])
                THEN /\ asteroids' = Append(asteroids, BodyFrom(IntValue(cols[1]), cols, 2))
                     /\ pc' = "rows"
                     /\ UNCHANGED asteroid_id
                ELSE /\ pc' = "raised"
                     /\ UNCHANGED <<asteroids, asteroid_id>>
           ELSE IF \A c \in 1 .. 5 : FloatOK(cols[c])
                THEN /\ asteroids' = Append(asteroids, BodyFrom(asteroid_id, cols, 1))
                     /\ asteroid_id' = asteroid_id + 1
                     /\ pc' = "rows"
                ELSE /\ pc' = "raised"
                     /\ UNCHANGED <<asteroids, asteroid_id>>
    /\ pos' = pos + 1
    /\ parts' = file[pos]
    /\ UNCHANGED <<file, has_header, has_ids, result, simVars>>

\* lines 72-74
ReturnLoaded ==
    /\ pc = "rows"
    /\ pos > Len(file)
    /\ result' = DictById(asteroids)
    /\ pc' = "returned"
    /\ UNCHANGED <<file, pos, parts, has_header, has_ids, asteroid_id, asteroids, simVars>>

NextLoad == DetectHeader \/ DetectIds \/ ProcessLine \/ ReturnLoaded

SpecLoad == InitLoad /\ [][NextLoad]_vars

(***************************************************************************)
(* Properties of simulate_collisions.  They are stated on the inputs as    *)
(* passed in: loaded (the floats), written (their decimals), duration and  *)
(* time_step.                                                              *)
(***************************************************************************)
RoundHalfEven(num, den) ==
    LET q == num \div den
        r == num % den
    IN  IF 2 * r > den \/ (2 * r = den /\ q % 2 = 1) THEN q + 1 ELSE q

\* the smallest k with k * time_step >= duration
LastStep == (duration + time_step - 1) \div time_step

\* the times k * time_step, k = 0 .. LastStep, each rounded to one decimal
ExpectedSamples ==
    [k \in 1 .. LastStep + 1 |-> RoundHalfEven((k - 1) * time_step, 10)]

Range(f) == {f[p] : p \in DOMAIN f}

Count(seq, e) == Cardinality({p \in DOMAIN seq : seq[p] = e})

\* the position of body id at the sampled time T (tenths): x0 + vx * t and
\* y0 + vy * t in binary64, from the mapping as passed in
PositionAt(id, T) ==
    [x |-> FloatAdd(loaded[id].x, FloatMul(loaded[id].vx, FloatOfTenths(T))),
     y |-> FloatAdd(loaded[id].y, FloatMul(loaded[id].vy, FloatOfTenths(T)))]

\* the binary64 distances of the centres of a and b at T that the test can
\* compute, the library being known as far as squares tells, and the
\* binary64 sum of their radii
DistsAt(a, b, T) ==
    LET pa == PositionAt(a, T)
        pb == PositionAt(b, T)
    IN  {dist(pw, pa, pb) : pw \in Pows(squares, Operands(pa, pb))}

RadiusSum(a, b) == FloatAdd(loaded[a].radius, loaded[b].radius)

\* every computable distance is below the sum; some computable distance
\* equals the sum
OverlapAt(a, b, T) == \A d \in DistsAt(a, b, T) : FloatLess(d, RadiusSum(a, b))

TouchAt(a, b, T) == \E d \in DistsAt(a, b, T) : d = RadiusSum(a, b)

\* the same in exact arithmetic on the decimals as written (all in tenths):
\* the squared distance of the centres at T and the squared sum of the radii
DecimalDist2At(a, b, T) ==
    LET dx == (written[a].x + written[a].vx * T) - (written[b].x + written[b].vx * T)
        dy == (written[a].y + written[a].vy * T) - (written[b].y + written[b].vy * T)
    IN  dx * dx + dy * dy

DecimalRadiusSum2(a, b) ==
    (written[a].radius + written[b].radius) * (written[a].radius + written[b].radius)

DecimalTouchAt(a, b, T) == DecimalDist2At(a, b, T) = DecimalRadiusSum2(a, b)

PairsOf(S) == {p \in S \X S : p[1] < p[2]}

LexLeq(e, f) ==
    \/ e[1] < f[1]
    \/ e[1] = f[1] /\ e[2] < f[2]
    \/ e[1] = f[1] /\ e[2] = f[2] /\ e[3] <= f[3]

\* C1: the returned log holds an entry <<T, a, b>> exactly for the sampled
\* times T and the pairs a < b of keys whose positions at T overlap, one
\* entry for each sample taken at T and nothing else.  Overlap is the test
\* of line 78-79 on the positions x0 + vx * T, y0 + vy * T with the squares
\* as the library returns them; at return no pair's answer is left open.
C1_EventsAreTheOverlaps ==
    pc = "done" =>
        /\ \A p \in DOMAIN collisions_list :
              /\ collisions_list[p][1] \in Range(sampled)
              /\ <<collisions_list[p][2], collisions_list[p][3]>>
                    \in PairsOf(DOMAIN loaded)
        /\ \A T \in Range(sampled) : \A ab \in PairsOf(DOMAIN loaded) :
              LET ds == DistsAt(ab[1], ab[2], T)
                  s  == RadiusSum(ab[1], ab[2])
              IN  /\ \A d, e \in ds : FloatLess(d, s) = FloatLess(e, s)
                  /\ Count(collisions_list, <<T, ab[1], ab[2]>>) =
                        (IF \A d \in ds : FloatLess(d, s)
                         THEN Cardinality({k \in DOMAIN sampled : sampled[k] = T})
                         ELSE 0)

\* a finished run over three bodies in which one pair overlapped at two
\* samples in a row, some pair did not overlap at some sample, and the
\* library's choice of a last bit decided a test
C1_Witness ==
    /\ pc = "done"
    /\ Cardinality(DOMAIN loaded) = 3
    /\ squares # <<>>
    /\ \E ab \in PairsOf(DOMAIN loaded) : \E k \in 1 .. Len(sampled) - 1 :
          /\ sampled[k] # sampled[k + 1]
          /\ Count(collisions_list, <<sampled[k], ab[1], ab[2]>>) = 1
          /\ Count(collisions_list, <<sampled[k + 1], ab[1], ab[2]>>) = 1
          /\ OverlapAt(ab[1], ab[2], sampled[k])
          /\ OverlapAt(ab[1], ab[2], sampled[k + 1])
    /\ \E ab \in PairsOf(DOMAIN loaded) : \E T \in Range(sampled) :
          ~OverlapAt(ab[1], ab[2], T)

\* C2 (as stated): any two consecutive entries of the log are in
\* lexicographic order of (time, lesser id, greater id).
C2_LogLexOrdered ==
    \A p \in 1 .. Len(collisions_list) - 1 :
        LexLeq(collisions_list[p], collisions_list[p + 1])

\* C3: every entry <<T, id1, id2>> of the log has id1 < id2, both of them
\* keys of the input mapping.
C3_EntriesCanonical ==
    \A p \in DOMAIN collisions_list :
        /\ collisions_list[p][2] < collisions_list[p][3]
        /\ collisions_list[p][2] \in DOMAIN loaded
        /\ collisions_list[p][3] \in DOMAIN loaded

\* three bodies, the log holds entries for two different pairs
C3_Witness ==
    /\ Cardinality(DOMAIN loaded) = 3
    /\ \E p, q \in DOMAIN collisions_list :
          <<collisions_list[p][2], collisions_list[p][3]>>
             # <<collisions_list[q][2], collisions_list[q][3]>>

\* C4 (as stated): every entry of the log is for a pair whose centre
\* distance is strictly less than the sum of the radii, and a pair whose
\* distance equals the sum of the radii at a sampled time has no entry at
\* that time; distance and sum are those of the bodies as written.
C4_StrictInequality ==
    /\ \A p \in DOMAIN collisions_list :
          DecimalDist2At(collisions_list[p][2], collisions_list[p][3],
                         collisions_list[p][1])
             < DecimalRadiusSum2(collisions_list[p][2], collisions_list[p][3])
    /\ \A T \in Range(sampled) : \A ab \in PairsOf(DOMAIN written) :
          DecimalTouchAt(ab[1], ab[2], T) =>
             Count(collisions_list, <<T, ab[1], ab[2]>>) = 0

\* C4 (amended): the test is strict on the binary64 values it computes: in
\* the returned log, a pair has an entry at a sampled time only if its
\* computed distance is strictly less than the computed sum of the radii,
\* and a pair whose computed distance equals the computed sum has none.
C4_StrictOnComputedValues ==
    pc = "done" =>
        \A T \in Range(sampled) : \A ab \in PairsOf(DOMAIN loaded) :
            LET ds == DistsAt(ab[1], ab[2], T)
                s  == RadiusSum(ab[1], ab[2])
                n  == Count(collisions_list, <<T, ab[1], ab[2]>>)
            IN  /\ n > 0 => \A d \in ds : FloatLess(d, s)
                /\ (\E d \in ds : d = s) => n = 0

\* a finished run in which a pair touched exactly at one sample, in decimal
\* and in binary64, and overlapped at another
C4_Witness ==
    /\ pc = "done"
    /\ \E ab \in PairsOf(DOMAIN loaded) : \E T, U \in Range(sampled) :
          /\ DecimalTouchAt(ab[1], ab[2], T)
          /\ Count(collisions_list, <<T, ab[1], ab[2]>>) = 0
          /\ Count(collisions_list, <<U, ab[1], ab[2]>>) = 1
          /\ TouchAt(ab[1], ab[2], T)
          /\ OverlapAt(ab[1], ab[2], U)

\* C5 (as stated): the run samples exactly the times k * time_step, rounded
\* to one decimal, for k = 0 .. K with K the smallest k such that
\* k * time_step >= duration.
C5_SamplesAreTheSteps ==
    pc = "done" => sampled = ExpectedSamples

\* Scenario 1: body 1 of radius 1 at rest at (0,0), body 2 of radius 1 at
\* (5,0) with velocity (-1,0), duration 10, time_step 1
Scenario1 ==
    /\ duration = 1000 /\ time_step = 100
    /\ written = ( 1 :> [x |-> 0,  y |-> 0, radius |-> 10, vx |-> 0,  vy |-> 0]
                @@ 2 :> [x |-> 50, y |-> 0, radius |-> 10, vx |-> -1, vy |-> 0] )

\* C6 (as stated): in Scenario 1 the pair (1,2) is reported at every sampled
\* time from 4.0 to 10.0 and at no time before 4.0.
C6_OverlapFromFourToTen ==
    (Scenario1 /\ pc = "done") =>
        collisions_list = [k \in 1 .. 7 |-> <<10 * (k + 3), 1, 2>>]

\* C6 (amended): in Scenario 1 the pair (1,2) is reported at the sampled
\* times 4.0, 5.0 and 6.0 and at no other time: not before 4.0, not at 7.0,
\* where the bodies touch, and not from 8.0 on, where they have separated.
C6_OverlapFromFourToSix ==
    (Scenario1 /\ pc = "done") =>
        /\ collisions_list = <<<<40, 1, 2>>, <<50, 1, 2>>, <<60, 1, 2>>>>
        /\ sampled = [k \in 1 .. 11 |-> 10 * (k - 1)]

C6_Witness == Scenario1 /\ pc = "done" /\ Len(collisions_list) = 3

\* C8: the body mapping is never changed by the simulation, and the
\* positions in use at a sample are the loaded position plus velocity times
\* the sample time (in binary64), everything else being copied.
C8_StoreReadOnly ==
    /\ asteroids_by_id = loaded
    /\ pc = "pair" =>
          /\ DOMAIN current_positions = DOMAIN loaded
          /\ \A id \in DOMAIN loaded :
                current_positions[id] =
                   [loaded[id] EXCEPT !.x = PositionAt(id, t).x,
                                      !.y = PositionAt(id, t).y]

\* the third or a later sample, at a time after 0, with a moving body
C8_Witness ==
    /\ pc = "pair"
    /\ Len(sampled) >= 3
    /\ t > 0
    /\ \E id \in DOMAIN written : written[id].vx # 0 \/ written[id].vy # 0

\* C10 (as stated): no entry occurs twice in the log.
C10_NoDuplicateEntries ==
    \A p, q \in DOMAIN collisions_list :
        p # q => collisions_list[p] # collisions_list[q]

(***************************************************************************)
(* Properties of load_asteroids.                                           *)
(***************************************************************************)
\* the indices of the lines the row loop keeps: those after the header
\* (if the loader found one) with at least five columns
RetainedLines ==
    {n \in DOMAIN file : (has_header => n > 1) /\ Len(file[n]) >= 5}

\* the position of line n among the retained lines
RankOf(n) == Cardinality({m \in RetainedLines : m <= n})

RowsAreNumeric ==
    \A n \in RetainedLines : \A c \in 1 .. 5 : FloatOK(file[n][c])

BodiesInFileOrder ==
    /\ DOMAIN result = 1 .. Cardinality(RetainedLines)
    /\ \A n \in RetainedLines :
          result[RankOf(n)] = BodyFrom(RankOf(n), file[n], 1)

\* C9 (as stated): whenever the loader decides that there is no ID column,
\* the load returns without error and the bodies carry the IDs 1 .. n in
\* file order of the retained rows, one body per retained row.
C9_AutoIdsAlways ==
    (pc \in {"returned", "raised"} /\ ~has_ids) =>
        (pc = "returned" /\ BodiesInFileOrder)

\* C9 (amended): whenever the loader decides that there is no ID column and
\* the first five columns of every retained row are numbers float() reads,
\* the load returns without error and the bodies carry the IDs 1 .. n in
\* file order of the retained rows, one body per retained row, a skipped
\* row using up no ID.
C9_AutoIdsOnNumericRows ==
    (pc \in {"returned", "raised"} /\ ~has_ids /\ RowsAreNumeric) =>
        (pc = "returned" /\ BodiesInFileOrder)

\* a returned load without IDs that skipped a short row between two
\* retained rows
C9_Witness ==
    /\ pc = "returned"
    /\ ~has_ids
    /\ \E a, b, c \in DOMAIN file :
          /\ a < b /\ b < c
          /\ a \in RetainedLines /\ c \in RetainedLines
          /\ Len(file[b]) < 5
    /\ Cardinality(DOMAIN result) = 2

====
